---- MODULE Spec2Model ----
(***************************************************************************)
(* Model of pkg/certificate/certificateCollection.go: the PEMCollection    *)
(* type, its constructors NewPEMCollection and PEMCollectionFromBytes, its *)
(* mutators AddPrivateKey and AddChainElement, the exporter                *)
(* ToTLSCertificate and the policy parser ChainOptionFromString.           *)
(*                                                                         *)
(* Representation.  A Go string or []byte holding PEM text is a sequence   *)
(* of lines; a line is a record [k, t, b]: a "-----BEGIN t-----" line, a   *)
(* "-----END t-----" line, a line of base64 carrying the bytes b, or a     *)
(* line of other text.  DER bytes are sequences of numbers.  Pointers that *)
(* can be nil are records with an isNil field.  A policy string is a       *)
(* sequence of Unicode code points.                                        *)
(***************************************************************************)
EXTENDS Integers, Sequences, FiniteSets, TLC

VARIABLES col, last, hist, order, option

vars == <<col, last, hist, order, option>>

(***************************************************************************)
(* Bounds of the model.                                                    *)
(***************************************************************************)
\* longest bundle handed to PEMCollectionFromBytes, in blocks and text lines
MaxBlocks == 3
\* most AddChainElement calls made on one collection
MaxAdds == 2

(***************************************************************************)
(* ChainOption and ChainOptionFromString.                                  *)
(***************************************************************************)
ChainOptionRootLast == 0
ChainOptionRootFirst == 1
ChainOptionIgnore == 2

ChainOptions == {ChainOptionRootLast, ChainOptionRootFirst, ChainOptionIgnore}

\* "root-first" and "ignore", the two case labels, as code points
RootFirstText == <<114, 111, 111, 116, 45, 102, 105, 114, 115, 116>>
IgnoreText == <<105, 103, 110, 111, 114, 101>>

\* unicode.ToLower on one code point: A-Z, and the non-ASCII capitals of the
\* model's alphabet (U+00C9 -> U+00E9, U+0130 -> i, U+212A -> k)
ToLowerRune(c) ==
  IF c >= 65 /\ c <= 90 THEN c + 32
  ELSE IF c = 201 THEN 233
  ELSE IF c = 304 THEN 105
  ELSE IF c = 8490 THEN 107
  ELSE c

\* strings.ToLower: every code point lowered, length kept
ToLower(s) == [i \in 1..Len(s) |-> ToLowerRune(s[i])]

\* the mutant of ChainOptionFromString: the switch on the string as given
ChainOptionFromStringCaseSensitive(s) ==
  IF s = RootFirstText THEN ChainOptionRootFirst
  ELSE IF s = IgnoreText THEN ChainOptionIgnore
  ELSE ChainOptionRootLast

ChainOptionFromString(s) ==
  LET lowered == ToLower(s) IN
  IF lowered = RootFirstText THEN ChainOptionRootFirst
  ELSE IF lowered = IgnoreText THEN ChainOptionIgnore
  ELSE ChainOptionRootLast

(***************************************************************************)
(* PEM text: encoding/pem as the code uses it.                             *)
(***************************************************************************)
BeginLine(t) == [k |-> "BEGIN", t |-> t, b |-> <<>>]
EndLine(t) == [k |-> "END", t |-> t, b |-> <<>>]
Base64Line(b) == [k |-> "BASE64", t |-> "", b |-> b]
TextLine == [k |-> "TEXT", t |-> "", b |-> <<>>]

\* *pem.Block, nil or a block with its Type and Bytes
NilBlock == [isNil |-> TRUE, Type |-> "", Bytes |-> <<>>]
Block(t, b) == [isNil |-> FALSE, Type |-> t, Bytes |-> b]

\* pem.EncodeToMemory: the BEGIN line, the base64 of the bytes, the END line
EncodeToMemory(p) ==
  <<BeginLine(p.Type)>>
    \o (IF p.Bytes = <<>> THEN <<>> ELSE <<Base64Line(p.Bytes)>>)
    \o <<EndLine(p.Type)>>

\* index of the first line of kind k in s, 0 when there is none
FirstLine(s, k) ==
  IF \E i \in 1..Len(s) : s[i].k = k
  THEN CHOOSE i \in 1..Len(s) : s[i].k = k /\ \A j \in 1..(i - 1) : s[j].k # k
  ELSE 0

\* the bytes of a block body: the payloads of its base64 lines, joined
RECURSIVE JoinBase64(_)
JoinBase64(body) ==
  IF body = <<>> THEN <<>> ELSE Head(body).b \o JoinBase64(Tail(body))

\* pem.Decode: the first well-formed block of data and the text after it.  A
\* BEGIN line with no END line after it, with an END line of another type, or
\* with a body that is not base64 is passed over, and the search goes on after
\* that BEGIN line.  With no block to find: nil and data itself.
RECURSIVE DecodeFrom(_, _)
DecodeFrom(data, rest) ==
  LET i == FirstLine(rest, "BEGIN") IN
  IF i = 0 THEN [p |-> NilBlock, rest |-> data]
  ELSE
    LET after == SubSeq(rest, i + 1, Len(rest))
        j == FirstLine(after, "END")
    IN
    IF j = 0 THEN DecodeFrom(data, after)
    ELSE
      LET body == SubSeq(after, 1, j - 1) IN
      IF after[j].t # rest[i].t \/ \E n \in 1..Len(body) : body[n].k # "BASE64"
      THEN DecodeFrom(data, after)
      ELSE [p |-> Block(rest[i].t, JoinBase64(body)),
            rest |-> SubSeq(after, j + 1, Len(after))]

Decode(data) == DecodeFrom(data, data)

(***************************************************************************)
(* DER values of the model and crypto/x509 as the code uses it.            *)
(***************************************************************************)
CertA == <<1>>
CertB == <<2>>
\* bytes that are no X.509 certificate
NotACert == <<9>>
\* a PKCS#1 RSA key, a SEC 1 EC key, a PKCS#8 key, an encrypted key
DerPKCS1 == <<11>>
DerSEC1 == <<12>>
DerPKCS8 == <<13>>
DerEncrypted == <<14>>

\* *x509.Certificate, nil or a certificate with its Raw bytes
NilCert == [isNil |-> TRUE, Raw |-> <<>>]
Cert(raw) == [isNil |-> FALSE, Raw |-> raw]

\* x509.ParseCertificate: the certificate whose Raw is the input, or an error
ParseCertificate(der) ==
  IF der \in {CertA, CertB}
  THEN [cert |-> Cert(der), err |-> ""]
  ELSE [cert |-> NilCert, err |-> "x509: malformed certificate"]

\* x509.ParseECPrivateKey
ParseECPrivateKey(der) ==
  IF der = DerSEC1 THEN [key |-> "*ecdsa.PrivateKey", err |-> ""]
  ELSE [key |-> "(*ecdsa.PrivateKey)(nil)", err |-> "x509: failed to parse EC private key"]

\* x509.ParsePKCS1PrivateKey
ParsePKCS1PrivateKey(der) ==
  IF der = DerPKCS1 THEN [key |-> "*rsa.PrivateKey", err |-> ""]
  ELSE [key |-> "(*rsa.PrivateKey)(nil)", err |-> "x509: failed to parse RSA private key"]

\* x509.ParsePKCS8PrivateKey
ParsePKCS8PrivateKey(der) ==
  IF der = DerPKCS8 THEN [key |-> "pkcs8 key", err |-> ""]
  ELSE [key |-> "nil", err |-> "x509: failed to parse PKCS#8 private key"]

KeyLabels == {"RSA PRIVATE KEY", "EC PRIVATE KEY", "ENCRYPTED PRIVATE KEY", "PRIVATE KEY"}

(***************************************************************************)
(* The key-encoding collaborators, GetCertificatePEMBlock and the two      *)
(* private-key block builders; their code is outside this file.            *)
(***************************************************************************)
\* crypto.Signer values handed to the constructor and the key mutator
Signers == {"nil", "rsa", "ec"}

GetCertificatePEMBlock(raw) == Block("CERTIFICATE", raw)

\* an unencrypted key block in one of the encodings the key supports, or an
\* encoding error; a nil key cannot be encoded
GetPrivateKeyPEMBock(privateKey, currentFormat) ==
  {[p |-> NilBlock, err |-> "unable to format key"]}
    \cup (IF privateKey = "rsa"
            THEN {[p |-> Block("RSA PRIVATE KEY", DerPKCS1), err |-> ""],
                  [p |-> Block("PRIVATE KEY", DerPKCS8), err |-> ""]}
          ELSE IF privateKey = "ec"
            THEN {[p |-> Block("EC PRIVATE KEY", DerSEC1), err |-> ""],
                  [p |-> Block("PRIVATE KEY", DerPKCS8), err |-> ""]}
          ELSE {})

\* a password-protected key block, or an encoding error
GetEncryptedPrivateKeyPEMBock(privateKey, privateKeyPassword, currentFormat) ==
  {[p |-> NilBlock, err |-> "unable to format key"]}
    \cup (IF privateKey = "rsa"
            THEN {[p |-> Block("ENCRYPTED PRIVATE KEY", DerEncrypted), err |-> ""],
                  [p |-> Block("RSA PRIVATE KEY", DerEncrypted), err |-> ""]}
          ELSE IF privateKey = "ec"
            THEN {[p |-> Block("ENCRYPTED PRIVATE KEY", DerEncrypted), err |-> ""],
                  [p |-> Block("EC PRIVATE KEY", DerEncrypted), err |-> ""]}
          ELSE {})

(***************************************************************************)
(* PEMCollection, its constructor and its mutators.  An operation that     *)
(* calls a key-encoding collaborator is the set of its possible results.   *)
(***************************************************************************)
\* (*PEMCollection)(nil)
NilCollection ==
  [isNil |-> TRUE, Certificate |-> <<>>, PrivateKey |-> <<>>, Chain |-> <<>>, CSR |-> <<>>]
\* PEMCollection{}
EmptyCollection ==
  [isNil |-> FALSE, Certificate |-> <<>>, PrivateKey |-> <<>>, Chain |-> <<>>, CSR |-> <<>>]

\* the format hint of the variadic parameter
CurrentFormat(format) ==
  IF Len(format) > 0 /\ format[1] # "" THEN format[1] ELSE ""

\* the collaborator call shared by NewPEMCollection and AddPrivateKey
KeyBlock(privateKey, privateKeyPassword, format) ==
  IF Len(privateKeyPassword) > 0
  THEN GetEncryptedPrivateKeyPEMBock(privateKey, privateKeyPassword, CurrentFormat(format))
  ELSE GetPrivateKeyPEMBock(privateKey, CurrentFormat(format))

NewPEMCollection(certificate, privateKey, privateKeyPassword, format) ==
  LET collection ==
        IF ~certificate.isNil
        THEN [EmptyCollection EXCEPT
                !.Certificate = EncodeToMemory(GetCertificatePEMBlock(certificate.Raw))]
        ELSE EmptyCollection
  IN
  IF privateKey # "nil"
  THEN {IF r.err # ""
          THEN [col |-> NilCollection, err |-> r.err]
          ELSE [col |-> [collection EXCEPT !.PrivateKey = EncodeToMemory(r.p)], err |-> ""]
        : r \in KeyBlock(privateKey, privateKeyPassword, format)}
  ELSE {[col |-> collection, err |-> ""]}

\* the mutant of AddPrivateKey: the check for a key already present is missing
AddPrivateKeyNoGuard(c, privateKey, privateKeyPassword, format) ==
  {IF r.err # ""
     THEN [col |-> c, err |-> r.err]
     ELSE [col |-> [c EXCEPT !.PrivateKey = EncodeToMemory(r.p)], err |-> ""]
   : r \in KeyBlock(privateKey, privateKeyPassword, format)}

ErrDuplicateKey == "vcert error: the PEM Collection can only contain one private key"

AddPrivateKey(c, privateKey, privateKeyPassword, format) ==
  IF c.PrivateKey # <<>>
  THEN {[col |-> c, err |-> ErrDuplicateKey]}
  ELSE {IF r.err # ""
          THEN [col |-> c, err |-> r.err]
          ELSE [col |-> [c EXCEPT !.PrivateKey = EncodeToMemory(r.p)], err |-> ""]
        : r \in KeyBlock(privateKey, privateKeyPassword, format)}

ErrNilCertificate == "vcert error: certificate cannot be nil"

\* the mutant of AddChainElement: the new element goes to the front
AddChainElementInFront(c, certificate) ==
  IF certificate.isNil
  THEN [col |-> c, err |-> ErrNilCertificate]
  ELSE [col |-> [c EXCEPT !.Chain =
                   <<EncodeToMemory(GetCertificatePEMBlock(certificate.Raw))>> \o c.Chain],
        err |-> ""]

AddChainElement(c, certificate) ==
  IF certificate.isNil
  THEN [col |-> c, err |-> ErrNilCertificate]
  ELSE [col |-> [c EXCEPT !.Chain =
                   Append(c.Chain, EncodeToMemory(GetCertificatePEMBlock(certificate.Raw)))],
        err |-> ""]

(***************************************************************************)
(* ToTLSCertificate.  b.Bytes and b.Type on a nil block are nil-pointer    *)
(* dereferences: the call panics.                                          *)
(***************************************************************************)
\* tls.Certificate{}; a nil PrivateKey interface is written "nil"
EmptyTLSCertificate == [panic |-> FALSE, Certificate |-> <<>>, PrivateKey |-> "nil"]
Panicked == [panic |-> TRUE, Certificate |-> <<>>, PrivateKey |-> "nil"]

\* lines 193-196: the DER of every chain entry appended to list, in order
RECURSIVE AppendChainDER(_, _)
AppendChainDER(list, chain) ==
  IF chain = <<>> THEN [panic |-> FALSE, list |-> list]
  ELSE LET b == Decode(Head(chain)).p IN
       IF b.isNil THEN [panic |-> TRUE, list |-> list]
       ELSE AppendChainDER(Append(list, b.Bytes), Tail(chain))

\* lines 199-209: the switch on the key block's label
KeyOfBlock(b) ==
  IF b.Type = "EC PRIVATE KEY" THEN ParseECPrivateKey(b.Bytes).key
  ELSE IF b.Type = "RSA PRIVATE KEY"
    THEN LET pkcs1 == ParsePKCS1PrivateKey(b.Bytes) IN
         IF pkcs1.err # "" THEN ParsePKCS8PrivateKey(b.Bytes).key ELSE pkcs1.key
  ELSE "nil"

RECURSIVE Reverse(_)
Reverse(s) == IF s = <<>> THEN <<>> ELSE Append(Reverse(Tail(s)), Head(s))

\* a mutant of ToTLSCertificate: the chain entries are appended last to first
ToTLSCertificateChainReversed(c) ==
  LET b == Decode(c.Certificate).p IN
  IF b.isNil THEN Panicked
  ELSE
    LET certs == AppendChainDER(<<b.Bytes>>, Reverse(c.Chain))
        k == Decode(c.PrivateKey).p
    IN
    IF certs.panic \/ k.isNil THEN Panicked
    ELSE [panic |-> FALSE, Certificate |-> certs.list, PrivateKey |-> KeyOfBlock(k)]

\* a mutant of ToTLSCertificate: a PRIVATE KEY block is parsed as PKCS#8 too
ToTLSCertificateWithPKCS8(c) ==
  LET b == Decode(c.Certificate).p IN
  IF b.isNil THEN Panicked
  ELSE
    LET certs == AppendChainDER(<<b.Bytes>>, c.Chain)
        k == Decode(c.PrivateKey).p
    IN
    IF certs.panic \/ k.isNil THEN Panicked
    ELSE [panic |-> FALSE, Certificate |-> certs.list,
          PrivateKey |-> IF k.Type = "PRIVATE KEY"
                           THEN ParsePKCS8PrivateKey(k.Bytes).key
                           ELSE KeyOfBlock(k)]

ToTLSCertificate(c) ==
  LET b == Decode(c.Certificate).p IN
  IF b.isNil THEN Panicked
  ELSE
    LET certs == AppendChainDER(Append(EmptyTLSCertificate.Certificate, b.Bytes), c.Chain)
        k == Decode(c.PrivateKey).p
    IN
    IF certs.panic \/ k.isNil THEN Panicked
    ELSE [panic |-> FALSE, Certificate |-> certs.list, PrivateKey |-> KeyOfBlock(k)]

(***************************************************************************)
(* PEMCollectionFromBytes.                                                 *)
(***************************************************************************)
\* lines 101-117: the scan.  chain collects the parsed certificates, privPEM
\* is string(current) as it was when the last key block was decoded.
RECURSIVE ScanBlocks(_, _, _)
ScanBlocks(current, chain, privPEM) ==
  LET d == Decode(current) IN
  IF d.p.isNil THEN [chain |-> chain, privPEM |-> privPEM, err |-> ""]
  ELSE IF d.p.Type = "CERTIFICATE"
    THEN LET x == ParseCertificate(d.p.Bytes) IN
         IF x.err # "" THEN [chain |-> chain, privPEM |-> privPEM, err |-> x.err]
         ELSE ScanBlocks(d.rest, Append(chain, x.cert), privPEM)
  ELSE IF d.p.Type \in KeyLabels
    THEN ScanBlocks(d.rest, chain, current)
  ELSE ScanBlocks(d.rest, chain, privPEM)

\* the loops of lines 124-129 and 134-139: AddChainElement for each of certs,
\* stopping at the first error
RECURSIVE AddChainElements(_, _)
AddChainElements(c, certs) ==
  IF certs = <<>> THEN [col |-> c, err |-> ""]
  ELSE LET r == AddChainElement(c, Head(certs)) IN
       IF r.err # "" THEN [col |-> NilCollection, err |-> r.err]
       ELSE AddChainElements(r.col, Tail(certs))

\* NewPEMCollection(certificate, nil, nil): no key, so one result
NewFromCertificate(certificate) ==
  CHOOSE r \in NewPEMCollection(certificate, "nil", <<>>, <<>>) : TRUE

\* a mutant of CollectRootFirst: the chain is filled from the leaf's
\* neighbour back to the root
CollectRootFirstReversed(chain, chainOrder) ==
  LET n == NewFromCertificate(chain[Len(chain)]) IN
  IF Len(chain) > 1 /\ chainOrder # ChainOptionIgnore
  THEN AddChainElements(n.col, Reverse(SubSeq(chain, 1, Len(chain) - 1)))
  ELSE n

\* lines 121-130: case ChainOptionRootFirst
CollectRootFirst(chain, chainOrder) ==
  LET n == NewFromCertificate(chain[Len(chain)]) IN
  IF Len(chain) > 1 /\ chainOrder # ChainOptionIgnore
  THEN AddChainElements(n.col, SubSeq(chain, 1, Len(chain) - 1))
  ELSE n

\* a mutant of CollectDefault: the loop ranges over chain, not chain[1:]
CollectDefaultWholeChain(chain, chainOrder) ==
  LET n == NewFromCertificate(chain[1]) IN
  IF Len(chain) > 1 /\ chainOrder # ChainOptionIgnore
  THEN AddChainElements(n.col, chain)
  ELSE n

\* a mutant of CollectDefault: the test for ChainOptionIgnore is missing
CollectDefaultNoIgnore(chain, chainOrder) ==
  LET n == NewFromCertificate(chain[1]) IN
  IF Len(chain) > 1
  THEN AddChainElements(n.col, SubSeq(chain, 2, Len(chain)))
  ELSE n

\* lines 131-140: the default case, ChainOptionRootLast and ChainOptionIgnore
CollectDefault(chain, chainOrder) ==
  LET n == NewFromCertificate(chain[1]) IN
  IF Len(chain) > 1 /\ chainOrder # ChainOptionIgnore
  THEN AddChainElements(n.col, SubSeq(chain, 2, Len(chain)))
  ELSE n

\* a mutant of PEMCollectionFromBytes: a bundle without a certificate is an error
PEMCollectionFromBytesNeedsCertificate(certBytes, chainOrder) ==
  LET s == ScanBlocks(certBytes, <<>>, <<>>) IN
  IF s.err # "" THEN [col |-> NilCollection, err |-> s.err]
  ELSE IF Len(s.chain) > 0
    THEN LET r == IF chainOrder = ChainOptionRootFirst
                    THEN CollectRootFirst(s.chain, chainOrder)
                    ELSE CollectDefault(s.chain, chainOrder)
         IN IF r.err # "" THEN [col |-> NilCollection, err |-> r.err]
            ELSE [col |-> [r.col EXCEPT !.PrivateKey = s.privPEM], err |-> ""]
  ELSE [col |-> NilCollection, err |-> "no certificate found"]

PEMCollectionFromBytes(certBytes, chainOrder) ==
  LET s == ScanBlocks(certBytes, <<>>, <<>>) IN
  IF s.err # "" THEN [col |-> NilCollection, err |-> s.err]
  ELSE
    LET r == IF Len(s.chain) > 0
               THEN IF chainOrder = ChainOptionRootFirst
                      THEN CollectRootFirst(s.chain, chainOrder)
                      ELSE CollectDefault(s.chain, chainOrder)
               ELSE [col |-> EmptyCollection, err |-> ""]
    IN
    IF r.err # "" THEN [col |-> NilCollection, err |-> r.err]
    ELSE [col |-> [r.col EXCEPT !.PrivateKey = s.privPEM], err |-> ""]

(***************************************************************************)
(* Inputs of the model.                                                    *)
(***************************************************************************)
\* the pieces a bundle is made of: PEM blocks, a line of other text, and a
\* BEGIN line that no END line closes
BlockItem(p) == [kind |-> "block", p |-> p]
TextItem == [kind |-> "text", p |-> NilBlock]
OpenItem == [kind |-> "open", p |-> Block("CERTIFICATE", <<>>)]

BundleItems ==
  {BlockItem(Block("CERTIFICATE", CertA)),
   BlockItem(Block("CERTIFICATE", CertB)),
   BlockItem(Block("CERTIFICATE", NotACert)),
   BlockItem(Block("RSA PRIVATE KEY", DerPKCS8)),
   BlockItem(Block("EC PRIVATE KEY", DerSEC1)),
   BlockItem(Block("ENCRYPTED PRIVATE KEY", DerEncrypted)),
   BlockItem(Block("PRIVATE KEY", DerPKCS8)),
   BlockItem(Block("CERTIFICATE REQUEST", <<21>>)),
   TextItem,
   OpenItem}

\* the text of one piece
ItemText(it) ==
  IF it.kind = "block" THEN EncodeToMemory(it.p)
  ELSE IF it.kind = "open" THEN <<BeginLine(it.p.Type)>>
  ELSE <<TextLine>>

\* the bytes of a bundle: the texts of its pieces, back to back
RECURSIVE BundleText(_)
BundleText(items) ==
  IF items = <<>> THEN <<>> ELSE ItemText(Head(items)) \o BundleText(Tail(items))

Bundles == UNION {[1..n -> BundleItems] : n \in 0..MaxBlocks}

CertificateArgs == {NilCert, Cert(CertA), Cert(CertB)}
Passwords == {<<>>, <<112>>}
Formats == {<<>>, <<"">>, <<"legacy-pem">>}

\* the spellings of a word: each letter as it is or in a capital form
CapitalForms(c) ==
  IF c >= 97 /\ c <= 122
  THEN {c - 32} \cup (IF c = 105 THEN {304} ELSE IF c = 107 THEN {8490} ELSE {})
  ELSE IF c = 233 THEN {201}
  ELSE {}

RECURSIVE Spellings(_)
Spellings(w) ==
  IF w = <<>> THEN {<<>>}
  ELSE {<<c>> \o rest : c \in {Head(w)} \cup CapitalForms(Head(w)), rest \in Spellings(Tail(w))}

\* "", "bogus", "root-last", "rootfirst", "root-firs", "ignored", "ignoré",
\* " ignore"
OtherWords ==
  {<<>>,
   <<98, 111, 103, 117, 115>>,
   <<114, 111, 111, 116, 45, 108, 97, 115, 116>>,
   <<114, 111, 111, 116, 102, 105, 114, 115, 116>>,
   <<114, 111, 111, 116, 45, 102, 105, 114, 115>>,
   <<105, 103, 110, 111, 114, 101, 100>>,
   <<105, 103, 110, 111, 114, 233>>,
   <<32, 105, 103, 110, 111, 114, 101>>}

OrderTexts == UNION {Spellings(w) : w \in {RootFirstText, IgnoreText} \cup OtherWords}

(***************************************************************************)
(* The state machine.  col is the collection the caller holds (nil before  *)
(* a constructor has returned one); last is the latest call: its name, its *)
(* inputs, the collection before it and what it returned; hist remembers   *)
(* the certificate and chain the collection was built with, the key it     *)
(* first held and the certificates passed to AddChainElement since.  A run *)
(* follows one collection: one constructor call, then any calls of the     *)
(* mutators and the exporter on what it returned.                          *)
(***************************************************************************)
NoCall ==
  [op |-> "", err |-> "", in |-> <<>>, policy |-> ChainOptionRootLast,
   arg |-> NilCert, before |-> NilCollection, out |-> EmptyTLSCertificate]

NoHistory == [leaf |-> NilCert, chain0 |-> <<>>, firstKey |-> <<>>, added |-> <<>>]

Init ==
  /\ col = NilCollection
  /\ last = NoCall
  /\ hist = NoHistory
  /\ order = <<>>
  /\ option = ChainOptionRootLast

\* the key the collection first held
FirstKey(c) == IF hist.firstKey = <<>> THEN c.PrivateKey ELSE hist.firstKey

CallNewPEMCollection ==
  /\ last.op = ""
  /\ \E certificate \in CertificateArgs, privateKey \in Signers,
        privateKeyPassword \in Passwords, format \in Formats :
       \E r \in NewPEMCollection(certificate, privateKey, privateKeyPassword, format) :
         /\ col' = r.col
         /\ last' = [NoCall EXCEPT !.op = "NewPEMCollection", !.err = r.err,
                                   !.arg = certificate]
         /\ hist' = [NoHistory EXCEPT !.leaf = IF r.col.isNil THEN NilCert ELSE certificate,
                                      !.chain0 = r.col.Chain,
                                      !.firstKey = r.col.PrivateKey]
  /\ UNCHANGED <<order, option>>

CallPEMCollectionFromBytes ==
  /\ last.op = ""
  /\ \E items \in Bundles, chainOrder \in ChainOptions :
       LET r == PEMCollectionFromBytes(BundleText(items), chainOrder) IN
         /\ col' = r.col
         /\ last' = [NoCall EXCEPT !.op = "PEMCollectionFromBytes", !.err = r.err,
                                   !.in = items, !.policy = chainOrder]
         /\ hist' = [NoHistory EXCEPT !.chain0 = r.col.Chain,
                                      !.firstKey = r.col.PrivateKey]
  /\ UNCHANGED <<order, option>>

CallAddPrivateKey ==
  /\ ~col.isNil
  /\ \E privateKey \in Signers, privateKeyPassword \in Passwords, format \in Formats :
       \E r \in AddPrivateKey(col, privateKey, privateKeyPassword, format) :
         /\ col' = r.col
         /\ last' = [NoCall EXCEPT !.op = "AddPrivateKey", !.err = r.err, !.before = col]
         /\ hist' = [hist EXCEPT !.firstKey = FirstKey(r.col)]
  /\ UNCHANGED <<order, option>>

CallAddChainElement ==
  /\ ~col.isNil
  /\ Len(hist.added) < MaxAdds
  /\ \E certificate \in CertificateArgs :
       LET r == AddChainElement(col, certificate) IN
         /\ col' = r.col
         /\ last' = [NoCall EXCEPT !.op = "AddChainElement", !.err = r.err,
                                   !.arg = certificate, !.before = col]
         /\ hist' = [hist EXCEPT !.added = Append(hist.added, certificate),
                                 !.firstKey = FirstKey(r.col)]
  /\ UNCHANGED <<order, option>>

CallToTLSCertificate ==
  /\ ~col.isNil
  /\ last' = [NoCall EXCEPT !.op = "ToTLSCertificate", !.before = col,
                            !.out = ToTLSCertificate(col),
                            !.err = IF ToTLSCertificate(col).panic
                                      THEN "panic: nil pointer dereference" ELSE ""]
  /\ UNCHANGED <<col, hist, order, option>>

Next ==
  \/ CallNewPEMCollection
  \/ CallPEMCollectionFromBytes
  \/ CallAddPrivateKey
  \/ CallAddChainElement
  \/ CallToTLSCertificate

Spec == Init /\ [][Next]_vars

\* the policy parser on its own
CallChainOptionFromString ==
  /\ last.op = ""
  /\ \E s \in OrderTexts :
       /\ order' = s
       /\ option' = ChainOptionFromString(s)
  /\ last' = [NoCall EXCEPT !.op = "ChainOptionFromString"]
  /\ UNCHANGED <<col, hist>>

NextPolicy == CallChainOptionFromString

SpecPolicy == Init /\ [][NextPolicy]_vars

(***************************************************************************)
(* What the claims speak of, stated apart from the code's own parsing.     *)
(***************************************************************************)
\* the CERTIFICATE blocks of a bundle, in the order they stand in it
IsCertificateItem(it) == it.kind = "block" /\ it.p.Type = "CERTIFICATE"
CertificateItems(items) == SelectSeq(items, IsCertificateItem)

\* the private-key blocks of a bundle, in the order they stand in it
IsKeyItem(it) == it.kind = "block" /\ it.p.Type \in KeyLabels
KeyItems(items) == SelectSeq(items, IsKeyItem)

\* every CERTIFICATE block of the bundle holds an X.509 certificate
AllParseable(items) ==
  \A i \in 1..Len(items) : IsCertificateItem(items[i]) => items[i].p.Bytes \in {CertA, CertB}

\* the PEM text of a certificate with the DER bytes der
CertificatePEM(der) ==
  <<BeginLine("CERTIFICATE"), Base64Line(der), EndLine("CERTIFICATE")>>

\* the text is the PEM of some certificate
IsCertificatePEM(text) == \E der \in {CertA, CertB} : text = CertificatePEM(der)

\* the DER bytes of a certificate's PEM text
DerOfPEM(text) == CHOOSE der \in {CertA, CertB} : text = CertificatePEM(der)

\* the text holds a well-formed PEM block
HoldsBlock(text) ==
  \E i, j \in 1..Len(text) :
    /\ i < j
    /\ text[i].k = "BEGIN" /\ text[j].k = "END" /\ text[i].t = text[j].t
    /\ \A n \in (i + 1)..(j - 1) : text[n].k = "BASE64"

\* the latest call was PEMCollectionFromBytes with this policy on a bundle with
\* at least one certificate, all of them parseable
ParsedWith(policy) ==
  /\ last.op = "PEMCollectionFromBytes"
  /\ last.policy = policy
  /\ Len(CertificateItems(last.in)) >= 1
  /\ AllParseable(last.in)

\* C1: PEMCollectionFromBytes with RootLast on a bundle whose certificates, in
\* decode order, are c1..cN (N >= 1, all parseable, other blocks interleaved
\* anywhere) returns Certificate = PEM of c1 and Chain = PEMs of c2..cN in
\* that order, N-1 entries.
C1_RootLastKeepsOrder ==
  ParsedWith(ChainOptionRootLast) =>
    LET c == CertificateItems(last.in) IN
      /\ last.err = "" /\ ~col.isNil
      /\ col.Certificate = CertificatePEM(c[1].p.Bytes)
      /\ Len(col.Chain) = Len(c) - 1
      /\ \A i \in 1..(Len(c) - 1) : col.Chain[i] = CertificatePEM(c[i + 1].p.Bytes)

\* a certificate, a private key, another certificate
C1_Witness ==
  /\ ParsedWith(ChainOptionRootLast)
  /\ Len(last.in) = 3
  /\ IsCertificateItem(last.in[1]) /\ IsKeyItem(last.in[2]) /\ IsCertificateItem(last.in[3])
  /\ col.Certificate = CertificatePEM(CertA)
  /\ col.Chain = <<CertificatePEM(CertB)>>

\* C2: PEMCollectionFromBytes with RootFirst on a bundle whose certificates,
\* in decode order, are c1..cN (N >= 1, all parseable) returns Certificate =
\* PEM of cN and Chain = PEMs of c1..cN-1 in decode order, N-1 entries.
C2_RootFirstTakesLast ==
  ParsedWith(ChainOptionRootFirst) =>
    LET c == CertificateItems(last.in) IN
      /\ last.err = "" /\ ~col.isNil
      /\ col.Certificate = CertificatePEM(c[Len(c)].p.Bytes)
      /\ Len(col.Chain) = Len(c) - 1
      /\ \A i \in 1..(Len(c) - 1) : col.Chain[i] = CertificatePEM(c[i].p.Bytes)

C2_Witness ==
  /\ ParsedWith(ChainOptionRootFirst)
  /\ Len(CertificateItems(last.in)) = 3
  /\ col.Certificate = CertificatePEM(CertB)
  /\ col.Chain = <<CertificatePEM(CertA), CertificatePEM(CertB)>>

\* C3: PEMCollectionFromBytes with Ignore on a bundle with N >= 1 parseable
\* certificates returns an empty Chain whatever N is, and Certificate = PEM
\* of the first certificate in decode order.
C3_IgnoreDropsChain ==
  ParsedWith(ChainOptionIgnore) =>
    /\ last.err = "" /\ ~col.isNil
    /\ col.Chain = <<>>
    /\ col.Certificate = CertificatePEM(CertificateItems(last.in)[1].p.Bytes)

C3_Witness ==
  /\ ParsedWith(ChainOptionIgnore)
  /\ Len(CertificateItems(last.in)) = 3
  /\ CertificateItems(last.in)[1].p.Bytes # CertificateItems(last.in)[3].p.Bytes
  /\ col.Chain = <<>>

\* C7: under every policy PEMCollectionFromBytes succeeds on a bundle from
\* which no CERTIFICATE block is decoded (empty, text only, or only key and
\* other-label blocks): a non-nil collection with empty Certificate and empty
\* Chain, and no error.
C7_NoCertificateIsNoError ==
  (last.op = "PEMCollectionFromBytes" /\ CertificateItems(last.in) = <<>>) =>
    /\ last.err = "" /\ ~col.isNil
    /\ col.Certificate = <<>>
    /\ col.Chain = <<>>

C7_Witness ==
  /\ last.op = "PEMCollectionFromBytes"
  /\ CertificateItems(last.in) = <<>>
  /\ Len(KeyItems(last.in)) >= 1
  /\ \E i \in 1..Len(last.in) : last.in[i].kind = "text"
  /\ ~col.isNil

\* C10: PEMCollectionFromBytes stores in PrivateKey the PEM text of exactly
\* one block: empty when no private-key block was decoded, otherwise the text
\* of the last private-key block in decode order and nothing of any other
\* block, also when other blocks follow it.
C10_PrivateKeyIsOneBlock ==
  (last.op = "PEMCollectionFromBytes" /\ last.err = "") =>
    LET k == KeyItems(last.in) IN
      col.PrivateKey = IF k = <<>> THEN <<>> ELSE ItemText(k[Len(k)])

\* C4: once PrivateKey is non-empty, every AddPrivateKey call fails with the
\* duplicate-key error and changes no field; so over any calls the stored key
\* is the first one set.
C4_OneKeyOnly ==
  /\ (last.op = "AddPrivateKey" /\ last.before.PrivateKey # <<>>) =>
       (last.err = ErrDuplicateKey /\ col = last.before)
  /\ (~col.isNil /\ hist.firstKey # <<>>) => col.PrivateKey = hist.firstKey

C4_Witness ==
  /\ last.op = "AddPrivateKey"
  /\ last.err = ErrDuplicateKey
  /\ col.PrivateKey # <<>>
  /\ Len(hist.added) >= 1

\* the PEMs of the non-nil certificates among certs, in order
RECURSIVE PEMsOfNonNil(_)
PEMsOfNonNil(certs) ==
  IF certs = <<>> THEN <<>>
  ELSE (IF Head(certs).isNil THEN <<>> ELSE <<CertificatePEM(Head(certs).Raw)>>)
         \o PEMsOfNonNil(Tail(certs))

\* C5: after any AddChainElement calls Chain is its initial content followed
\* by the PEMs of the non-nil arguments in call order; a call with nil fails
\* with the invalid-input error and changes no field, a successful call
\* appends exactly one entry at the end.
C5_ChainFollowsCalls ==
  /\ ~col.isNil => col.Chain = hist.chain0 \o PEMsOfNonNil(hist.added)
  /\ (last.op = "AddChainElement" /\ last.arg.isNil) =>
       (last.err = ErrNilCertificate /\ col = last.before)
  /\ (last.op = "AddChainElement" /\ ~last.arg.isNil) =>
       /\ last.err = ""
       /\ col = [last.before EXCEPT
                   !.Chain = Append(last.before.Chain, CertificatePEM(last.arg.Raw))]

C5_Witness ==
  /\ last.op = "AddChainElement"
  /\ hist.chain0 # <<>>
  /\ \E i \in 1..Len(hist.added) : hist.added[i].isNil
  /\ \E i \in 1..Len(hist.added) : ~hist.added[i].isNil
  /\ Len(col.Chain) = Len(hist.chain0) + 1

\* the collection's Certificate, Chain entries and PrivateKey all decode
AllDecode(c) ==
  /\ IsCertificatePEM(c.Certificate)
  /\ \A i \in 1..Len(c.Chain) : IsCertificatePEM(c.Chain[i])
  /\ HoldsBlock(c.PrivateKey)

\* C8: on a collection whose Certificate, Chain entries and PrivateKey all
\* decode, ToTLSCertificate returns 1 + len(Chain) certificates: the DER of
\* Certificate, then the DER of the Chain entries in stored order; after
\* NewPEMCollection(cert, key) the first entry is cert.Raw.
C8_ExportKeepsOrder ==
  (last.op = "ToTLSCertificate" /\ AllDecode(col)) =>
    /\ ~last.out.panic
    /\ Len(last.out.Certificate) = 1 + Len(col.Chain)
    /\ last.out.Certificate[1] = DerOfPEM(col.Certificate)
    /\ \A i \in 1..Len(col.Chain) : last.out.Certificate[i + 1] = DerOfPEM(col.Chain[i])
    /\ ~hist.leaf.isNil => last.out.Certificate[1] = hist.leaf.Raw

C8_Witness ==
  /\ last.op = "ToTLSCertificate"
  /\ AllDecode(col)
  /\ ~hist.leaf.isNil
  /\ Len(col.Chain) = 2
  /\ col.Chain[1] # col.Chain[2]

IsSpelling(s, word) ==
  /\ Len(s) = Len(word)
  /\ \A i \in 1..Len(word) : s[i] = word[i] \/ s[i] \in CapitalForms(word[i])

\* C6: ChainOptionFromString is total and case-insensitive: every spelling of
\* "root-first" yields RootFirst, every spelling of "ignore" yields Ignore,
\* every other string (the empty one, "bogus") yields RootLast.
C6_PolicyParseIsCaseInsensitive ==
  last.op = "ChainOptionFromString" =>
    option = IF IsSpelling(order, RootFirstText) THEN ChainOptionRootFirst
             ELSE IF IsSpelling(order, IgnoreText) THEN ChainOptionIgnore
             ELSE ChainOptionRootLast

\* "Root-First"
C6_Witness ==
  /\ last.op = "ChainOptionFromString"
  /\ order = <<82, 111, 111, 116, 45, 70, 105, 114, 115, 116>>
  /\ option = ChainOptionRootFirst

====
